---------------------------- MODULE Spec2Model ----------------------------
(***************************************************************************)
(* A model of the iracingsdk telemetry reader: the cursor of src/ptr.rs    *)
(* (Ptr, FromPtr, TryFromPtr), the record decoders of src/main.rs          *)
(* (VarType, VarHeader, VarBuf, SdkHeader) and main's loop over the        *)
(* shared-memory snapshot (Connection, View, main).                        *)
(*                                                                         *)
(* Two specifications:                                                     *)
(*   Spec     main(), one action per step of the program.                  *)
(*   SpecPtr  the cursor alone: one operation of Ptr applied to a cursor   *)
(*            at an arbitrary offset over an arbitrary snapshot.           *)
(***************************************************************************)
EXTENDS Integers, Sequences, FiniteSets, TLC

VARIABLES
    pc,          \* main's position
    conn,        \* the Connection value: [mapping, event], or NoConn
    view,        \* the View value of the current iteration (its address), or NULL
    ptr,         \* the cursor: [ptr |-> base address, offset |-> bytes]
    mem,         \* the mapped view's memory: [base, snap, bytes, ub], or NoMem
    sdk_header,  \* the decoded SdkHeader of the current iteration, or NoHeader
    headers,     \* the Vec of VarHeaders decoded so far in this iteration
    result,      \* main's return value, or Pending
    os,          \* the OS side: open handles, mapped views, last error, misuse
    last         \* the last cursor operation: what was called, from where, its result

vars == <<pc, conn, view, ptr, mem, sdk_header, headers, result, os, last>>

(***************************************************************************)
(* Program constants.                                                      *)
(***************************************************************************)
MAX_BUFS == 4
MAX_STRING == 32
MAX_DESC == 64

(***************************************************************************)
(* Bounds of the model.                                                    *)
(***************************************************************************)
\* the largest num_vars a snapshot declares
MaxVars == 2

NULL == 0

(***************************************************************************)
(* Bytes and 32-bit integers: std::ptr::read of an i32 from little-endian  *)
(* memory, two's complement.                                               *)
(***************************************************************************)
Pow256(k) == CASE k = 0 -> 1 [] k = 1 -> 256 [] k = 2 -> 65536 [] k = 3 -> 16777216

\* byte k (0 = least significant) of the i32 v as the producer stores it
I32Byte(v, k) ==
    IF v >= 0 THEN (v \div Pow256(k)) % 256
    ELSE 255 - (((-v - 1) \div Pow256(k)) % 256)

\* the i32 that four bytes in memory order hold
I32FromBytes(b) ==
    IF b[4] < 128
    THEN b[1] + 256 * b[2] + 65536 * b[3] + 16777216 * b[4]
    ELSE -((255 - b[1]) + 256 * (255 - b[2]) + 65536 * (255 - b[3])
           + 16777216 * (255 - b[4])) - 1

(***************************************************************************)
(* The producer's snapshot.  A snapshot s is what the producer published:  *)
(*   s.ints   the ten integer fields of the header, in declared order      *)
(*   s.bufs   four [tick_count, buf_offset]                                *)
(*   s.vars   the variable-header table at s.ints[8] (var_header_offset),  *)
(*            each [type, offset, count, flag, tag]                        *)
(* Bytes(s) is the region it occupies, byte by byte.                       *)
(***************************************************************************)
SDK_HEADER_INTS == 10
SDK_HEADER_PAD == 8
VAR_BUF_PAD == 8
VAR_HEADER_PAD == 3

\* the bytes one VarBuf, one SdkHeader, one VarHeader occupy
VarBufSize == 4 + 4 + VAR_BUF_PAD
SdkHeaderSize == 4 * SDK_HEADER_INTS + SDK_HEADER_PAD + MAX_BUFS * VarBufSize
VarHeaderSize == 4 + 4 + 4 + 1 + VAR_HEADER_PAD + MAX_STRING + MAX_DESC + MAX_STRING

I32Bytes(v) == <<I32Byte(v, 0), I32Byte(v, 1), I32Byte(v, 2), I32Byte(v, 3)>>
Zeros(n) == [k \in 1..n |-> 0]
\* a fixed-width string: the tag byte, then zero fill
Text(tag, n) == [k \in 1..n |-> IF k = 1 THEN tag ELSE 0]

VarBufBytes(b) == I32Bytes(b.tick_count) \o I32Bytes(b.buf_offset) \o Zeros(VAR_BUF_PAD)

VarHeaderBytes(v) ==
    I32Bytes(v.type) \o I32Bytes(v.offset) \o I32Bytes(v.count)
    \o <<v.flag>> \o Zeros(VAR_HEADER_PAD)
    \o Text(v.tag, MAX_STRING) \o Text(v.tag, MAX_DESC) \o Text(v.tag, MAX_STRING)

RECURSIVE Concat(_)
Concat(ss) == IF ss = <<>> THEN <<>> ELSE Head(ss) \o Concat(Tail(ss))

\* the header, the gap before the table, the table, the payload buffers
Bytes(s) ==
    Concat([k \in 1..SDK_HEADER_INTS |-> I32Bytes(s.ints[k])])
    \o Zeros(SDK_HEADER_PAD)
    \o Concat([k \in 1..MAX_BUFS |-> VarBufBytes(s.bufs[k])])
    \o Zeros(s.ints[8] - SdkHeaderSize)
    \o Concat([k \in 1..Len(s.vars) |-> VarHeaderBytes(s.vars[k])])
    \o Zeros(MAX_BUFS * s.ints[10])

\* a mapped view: its address, what the producer published, its bytes, and
\* what a read of an invalid bit pattern yields
MapView(a, s, ub) == [base |-> a, snap |-> s, bytes |-> Bytes(s), ub |-> ub]
NoMem == [base |-> NULL, snap |-> <<>>, bytes |-> <<>>, ub |-> FALSE]

\* the byte at address addr of the mapped view m (an address outside the
\* view reads as 0)
Load(m, addr) ==
    LET k == addr - m.base + 1
    IN  IF k >= 1 /\ k <= Len(m.bytes) THEN m.bytes[k] ELSE 0

(***************************************************************************)
(* Ptr (src/ptr.rs).  A cursor p is [ptr |-> base, offset |-> n].          *)
(* A read returns [ptr |-> the cursor afterwards, val |-> the value].      *)
(***************************************************************************)
Ptr_new(base) == [ptr |-> base, offset |-> 0]

\* a set that moves the base instead of the offset
Ptr_set_base(p, offset) == [ptr |-> p.ptr + offset, offset |-> 0]

Ptr_set(p, offset) == [p EXCEPT !.offset = offset]

Ptr_advance(p, count) == [p EXCEPT !.offset = @ + count]


(***************************************************************************)
(* Types read through FromPtr, as data: [ty |-> "u8" | "i32" | "bool" |    *)
(* "VarBuf"], and [ty |-> "array", elem |-> T, n |-> N] for [T; N].        *)
(***************************************************************************)
U8 == [ty |-> "u8"]
I32 == [ty |-> "i32"]
Bool == [ty |-> "bool"]
VarBufT == [ty |-> "VarBuf"]
ArrayT(T, N) == [ty |-> "array", elem |-> T, n |-> N]

\* std::mem::size_of::<T>() of the types read_internal is instantiated with
SizeOf(T) == CASE T.ty = "u8" -> 1 [] T.ty = "i32" -> 4 [] T.ty = "bool" -> 1

\* the bytes at base + offset, size_of::<T>() of them, and the cursor advanced
Ptr_read_internal(m, p, T) ==
    LET offset_ptr == p.ptr + p.offset
    IN  [ptr |-> Ptr_advance(p, SizeOf(T)),
         val |-> [k \in 1..SizeOf(T) |-> Load(m, offset_ptr + k - 1)]]

\* std::ptr::read of the bytes as a u8, an i32, a bool.  A bool read from a
\* byte other than 0 or 1 is undefined behaviour: m.ub is the value the build
\* happens to produce for this view.
AsU8(b) == b[1]
AsBool(b, ub) == CASE b[1] = 0 -> FALSE [] b[1] = 1 -> TRUE [] OTHER -> ub

\* impl_from_ptr!(u8), (i32), (bool)
u8_from_ptr(m, p) ==
    LET r == Ptr_read_internal(m, p, U8) IN [ptr |-> r.ptr, val |-> AsU8(r.val)]

i32_from_ptr(m, p) ==
    LET r == Ptr_read_internal(m, p, I32) IN [ptr |-> r.ptr, val |-> I32FromBytes(r.val)]

bool_from_ptr(m, p) ==
    LET r == Ptr_read_internal(m, p, Bool) IN [ptr |-> r.ptr, val |-> AsBool(r.val, m.ub)]

\* a VarBuf without the reserved bytes after its two integers
VarBuf_from_ptr_packed(m, p) ==
    LET tick_count == i32_from_ptr(m, p)
        buf_offset == i32_from_ptr(m, tick_count.ptr)
    IN  [ptr |-> buf_offset.ptr,
         val |-> [tick_count |-> tick_count.val, buf_offset |-> buf_offset.val]]

VarBuf_from_ptr(m, p) ==
    LET tick_count == i32_from_ptr(m, p)
        buf_offset == i32_from_ptr(m, tick_count.ptr)
    IN  [ptr |-> Ptr_advance(buf_offset.ptr, VAR_BUF_PAD),
         val |-> [tick_count |-> tick_count.val, buf_offset |-> buf_offset.val]]

RECURSIVE array_from_ptr(_, _, _, _, _)

\* an array filled from the front
array_push_front(m, r, T, N, values) ==
    array_from_ptr(m, r.ptr, T, N, <<r.val>> \o values)

\* impl FromPtr for [T; N]: values are the elements pushed so far, r the
\* element just read
array_push(m, r, T, N, values) == array_from_ptr(m, r.ptr, T, N, Append(values, r.val))

\* T::from_ptr(ptr), by the type read
from_ptr(m, p, T) ==
    CASE T.ty = "u8" -> u8_from_ptr(m, p)
      [] T.ty = "i32" -> i32_from_ptr(m, p)
      [] T.ty = "bool" -> bool_from_ptr(m, p)
      [] T.ty = "VarBuf" -> VarBuf_from_ptr(m, p)
      [] T.ty = "array" -> array_from_ptr(m, p, T.elem, T.n, <<>>)

array_from_ptr(m, p, T, N, values) ==
    IF Len(values) = N THEN [ptr |-> p, val |-> values]
    ELSE array_push(m, from_ptr(m, p, T), T, N, values)

\* ptr.read::<T>()
Ptr_read(m, p, T) == from_ptr(m, p, T)

\* the struct literal of SdkHeader::from_ptr: the fields in the order read
SdkHeader_from_ptr(m, p) ==
    LET version == i32_from_ptr(m, p)
        status == i32_from_ptr(m, version.ptr)
        tick_rate == i32_from_ptr(m, status.ptr)
        session_info_update == i32_from_ptr(m, tick_rate.ptr)
        session_info_len == i32_from_ptr(m, session_info_update.ptr)
        session_info_offset == i32_from_ptr(m, session_info_len.ptr)
        num_vars == i32_from_ptr(m, session_info_offset.ptr)
        var_header_offset == i32_from_ptr(m, num_vars.ptr)
        num_buf == i32_from_ptr(m, var_header_offset.ptr)
        buf_len == i32_from_ptr(m, num_buf.ptr)
        b1 == VarBuf_from_ptr(m, Ptr_advance(buf_len.ptr, SDK_HEADER_PAD))
        b2 == VarBuf_from_ptr(m, b1.ptr)
        b3 == VarBuf_from_ptr(m, b2.ptr)
        b4 == VarBuf_from_ptr(m, b3.ptr)
    IN  [ptr |-> b4.ptr,
         val |-> [version |-> version.val,
                  status |-> status.val,
                  tick_rate |-> tick_rate.val,
                  session_info_update |-> session_info_update.val,
                  session_info_len |-> session_info_len.val,
                  session_info_offset |-> session_info_offset.val,
                  num_vars |-> num_vars.val,
                  var_header_offset |-> var_header_offset.val,
                  num_buf |-> num_buf.val,
                  buf_len |-> buf_len.val,
                  var_bufs |-> <<b1.val, b2.val, b3.val, b4.val>>]]

(***************************************************************************)
(* Result and Error (src/lib.rs).                                          *)
(***************************************************************************)
NoValue == "none"
NoError == [tag |-> "none", code |-> 0]
Ok(v) == [ok |-> TRUE, val |-> v, err |-> NoError]
Err(e) == [ok |-> FALSE, val |-> NoValue, err |-> e]

TelemetryNotPresent == [tag |-> "TelemetryNotPresent", code |-> 0]
EventNotPresent == [tag |-> "EventNotPresent", code |-> 0]
ViewCreationFailed == [tag |-> "ViewCreationFailed", code |-> 0]
UnknownVarType(x) == [tag |-> "UnknownVarType", code |-> x]
WaitFailed(errno) == [tag |-> "WaitFailed", code |-> errno]

(***************************************************************************)
(* The fallible path.  A closure handed to scoped is data:                 *)
(*   [kind |-> "VarType"]        |p| VarType::try_from_ptr(p)              *)
(*   [kind |-> "VarHeader"]      |p| VarHeader::try_from_ptr(p)            *)
(*   [kind |-> "VarHeaderBody"]  the closure inside VarHeader::try_from_ptr*)
(*   [kind |-> "script", ops, ok, err]  a closure that performs ops on the *)
(*                               cursor it is given and returns Ok or Err  *)
(* Call(m, p, f) is f(&mut p): [ptr |-> p afterwards, res |-> the Result]. *)
(***************************************************************************)
RECURSIVE Call(_, _, _)

\* scoped without the match: the clone is written back whatever the result
ScopedMatch_commit(self, clone) == [ptr |-> clone.ptr, res |-> clone.res]

\* scoped that never writes the clone back
ScopedMatch_discard(self, clone) == [ptr |-> self, res |-> clone.res]

\* the match of scoped on res, the closure's result on the clone
ScopedMatch(self, clone) ==
    IF clone.res.ok THEN [ptr |-> clone.ptr, res |-> clone.res]
    ELSE [ptr |-> self, res |-> clone.res]

Ptr_scoped(m, self, f) == ScopedMatch(self, Call(m, self, f))

Ptr_try_read(m, self, T) == Ptr_scoped(m, self, [kind |-> T])

\* a match with a seventh arm
VarTypeMatch_six(int) ==
    CASE int = 0 -> Ok("Char") [] int = 1 -> Ok("Bool") [] int = 2 -> Ok("Int")
      [] int = 3 -> Ok("BitField") [] int = 4 -> Ok("Float") [] int = 5 -> Ok("Double")
      [] int = 6 -> Ok("Double")
      [] OTHER -> Err(UnknownVarType(int))

\* the match of VarType::try_from_ptr on the integer read
VarTypeMatch(int) ==
    CASE int = 0 -> Ok("Char")
      [] int = 1 -> Ok("Bool")
      [] int = 2 -> Ok("Int")
      [] int = 3 -> Ok("BitField")
      [] int = 4 -> Ok("Float")
      [] int = 5 -> Ok("Double")
      [] OTHER -> Err(UnknownVarType(int))

VarType_try_from_ptr(m, p) ==
    LET int == i32_from_ptr(m, p)
    IN  [ptr |-> int.ptr, res |-> VarTypeMatch(int.val)]

\* the closure of VarHeader::try_from_ptr after `let r#type = p.try_read()?`
VarHeaderFields(m, type) ==
    LET offset == i32_from_ptr(m, type.ptr)
        count == i32_from_ptr(m, offset.ptr)
        count_as_time == bool_from_ptr(m, count.ptr)
        name == array_from_ptr(m, Ptr_advance(count_as_time.ptr, VAR_HEADER_PAD),
                               U8, MAX_STRING, <<>>)
        desc == array_from_ptr(m, name.ptr, U8, MAX_DESC, <<>>)
        unit == array_from_ptr(m, desc.ptr, U8, MAX_STRING, <<>>)
    IN  [ptr |-> unit.ptr,
         res |-> Ok([type |-> type.res.val,
                     offset |-> offset.val,
                     count |-> count.val,
                     count_as_time |-> count_as_time.val,
                     name |-> name.val,
                     desc |-> desc.val,
                     unit |-> unit.val])]

\* a VarHeader decode that goes on after its VarType failed
VarHeaderTry_lenient(m, type) == VarHeaderFields(m, type)

\* `?`: the VarType error leaves the closure, the cursor where try_read left it
VarHeaderTry(m, type) ==
    IF type.res.ok THEN VarHeaderFields(m, type)
    ELSE [ptr |-> type.ptr, res |-> Err(type.res.err)]

\* the closure of VarHeader::try_from_ptr
VarHeaderBody(m, p) == VarHeaderTry(m, Ptr_try_read(m, p, "VarType"))

VarHeader_try_from_ptr(m, p) == Ptr_scoped(m, p, [kind |-> "VarHeaderBody"])

\* one step of a script closure
ScriptStep(m, p, o) ==
    CASE o.op = "advance" -> Ptr_advance(p, o.n)
      [] o.op = "set" -> Ptr_set(p, o.n)
      [] o.op = "read" -> Ptr_read(m, p, o.T).ptr

RECURSIVE RunScript(_, _, _)
RunScript(m, p, ops) ==
    IF ops = <<>> THEN p
    ELSE RunScript(m, ScriptStep(m, p, Head(ops)), Tail(ops))

Call(m, p, f) ==
    CASE f.kind = "VarType" -> VarType_try_from_ptr(m, p)
      [] f.kind = "VarHeader" -> VarHeader_try_from_ptr(m, p)
      [] f.kind = "VarHeaderBody" -> VarHeaderBody(m, p)
      [] f.kind = "script" ->
            [ptr |-> RunScript(m, p, f.ops),
             res |-> IF f.ok THEN Ok("unit") ELSE Err(f.err)]

(***************************************************************************)
(* Inputs: the snapshots the producer publishes.                           *)
(***************************************************************************)
\* the type codes of the records of a published table
TypeCodes == {4, -1, 99}
\* the byte the producer stores for count_as_time
FlagBytes == {1}
\* the revisions (tick_count) of the four buffers
Revisions == {2, 3, 7}
\* where the variable-header table starts
TableOffsets == {144}
\* the stride of the payload buffers
BUF_LEN == 32

Snapshot(nv, table, ticks, codes, flag) ==
    LET n == Len(codes)
    IN  [ints |-> <<2, 1, 60, 0, 0, 0, nv, table, MAX_BUFS, BUF_LEN>>,
         bufs |-> [k \in 1..MAX_BUFS |->
                     [tick_count |-> ticks[k],
                      buf_offset |-> table + VarHeaderSize * n + BUF_LEN * (k - 1)]],
         vars |-> [k \in 1..n |->
                     [type |-> codes[k], offset |-> 4 * (k - 1), count |-> k,
                      flag |-> flag, tag |-> 64 + k]]]

\* the tick counts of the four buffers of a snapshot
TickSeqs == [1..MAX_BUFS -> Revisions] \cup {<<1, 5, 3, 0>>}

\* the tables of n records, for n up to MaxVars
CodeSeqs == UNION {[1..n -> TypeCodes] : n \in 0..MaxVars}

\* num_vars is the table's length, or negative with an empty table
MainSnapshots ==
    {Snapshot(Len(codes), table, ticks, codes, flag) :
        codes \in CodeSeqs, table \in TableOffsets,
        ticks \in TickSeqs, flag \in FlagBytes}
    \cup {Snapshot(-1, table, ticks, <<>>, 0) :
        table \in TableOffsets, ticks \in TickSeqs}

(***************************************************************************)
(* The OS side.  os.handles are the open handles, os.views the mapped view *)
(* addresses, os.last_error what GetLastError returns, os.misuse the calls *)
(* that released something not held.                                       *)
(***************************************************************************)
MappingHandles == {16}
EventHandles == {32}
ViewAddrs == {4096, 8192}
\* GetLastError after a failed wait: ERROR_ACCESS_DENIED, ERROR_INVALID_HANDLE
WaitErrors == {5, 6}

NoConn == [mapping |-> NULL, event |-> NULL]
NoPtr == [ptr |-> NULL, offset |-> 0]
NoHeader == [num_vars |-> 0, var_header_offset |-> 0, var_bufs |-> <<>>]
Pending == [ok |-> FALSE, val |-> NoValue, err |-> NoError]
\* no cursor operation yet
NoOp == [op |-> "none", T |-> "none", before |-> NoPtr, clone |-> NoPtr,
         res |-> Pending, val |-> NoValue]

\* the system's side of the releases: an open handle or a mapped view is
\* released (and remembered in `released`); anything else is a misuse
CloseHandle(o, h) ==
    IF h \in o.handles
    THEN [o EXCEPT !.handles = @ \ {h}, !.released = @ \cup {h}]
    ELSE [o EXCEPT !.misuse = @ \cup {<<"CloseHandle", h>>}]

UnmapViewOfFile(o, a) ==
    IF a \in o.views
    THEN [o EXCEPT !.views = @ \ {a}, !.released = @ \cup {a}]
    ELSE [o EXCEPT !.misuse = @ \cup {<<"UnmapViewOfFile", a>>}]

\* `x as usize` of an i32: a negative x becomes a huge offset.  USIZE_TOP
\* stands for 2^64 (the model checker's integers are 32 bits wide).
USIZE_TOP == 2^30
AsUsize(x) == IF x >= 0 THEN x ELSE USIZE_TOP + x

(***************************************************************************)
(* main (src/main.rs).                                                     *)
(***************************************************************************)
Init ==
    /\ pc = "open"
    /\ conn = NoConn
    /\ view = NULL
    /\ ptr = NoPtr
    /\ mem = NoMem
    /\ sdk_header = NoHeader
    /\ headers = <<>>
    /\ result = Pending
    /\ os = [handles |-> {}, views |-> {}, last_error |-> 0, misuse |-> {}, released |-> {},
             event_open |-> "none"]
    /\ last = NoOp

\* what the two opens of Connection::open leave in the system: the handle
\* returned, if any, is open; event_open keeps whether the event was found
OpenFileMappingW(o, h) == [o EXCEPT !.handles = @ \cup ({h} \ {NULL})]
OpenEventW(o, h) ==
    [o EXCEPT !.handles = @ \cup ({h} \ {NULL}),
              !.event_open = IF h = NULL THEN "failed" ELSE "opened"]

\* Connection::open()?: OpenFileMappingW and OpenEventW return a handle or null
Connection_open ==
    /\ pc = "open"
    /\ \E mapping \in MappingHandles \cup {NULL} :
          IF mapping = NULL
          THEN /\ result' = Err(TelemetryNotPresent)
               /\ pc' = "done"
               /\ UNCHANGED <<conn, os>>
          ELSE \E event \in EventHandles \cup {NULL} :
                  IF mapping = NULL
                  THEN /\ result' = Err(EventNotPresent)
                       /\ pc' = "done"
                       /\ os' = OpenEventW(OpenFileMappingW(os, mapping), event)
                       /\ UNCHANGED conn
                  ELSE /\ conn' = [mapping |-> mapping, event |-> event]
                       /\ os' = OpenEventW(OpenFileMappingW(os, mapping), event)
                       /\ pc' = "wait"
                       /\ UNCHANGED result
    /\ UNCHANGED <<view, ptr, mem, sdk_header, headers, last>>

\* a loop condition that ends the loop
LoopCond_false == FALSE

\* the value of the block `{ connection.wait_for_event()?; true }`
LoopCond == TRUE

\* a wait that is tried again when it fails
Connection_wait_for_event_retry ==
    /\ pc = "wait"
    /\ \E errno \in (IF conn.event \in os.handles THEN WaitErrors \cup {0} ELSE {6}) :
          IF errno # 0
          THEN /\ os' = [os EXCEPT !.last_error = errno]
               /\ UNCHANGED <<pc, result>>
          ELSE /\ pc' = "create"
               /\ UNCHANGED <<os, result>>
    /\ UNCHANGED <<conn, view, ptr, mem, sdk_header, headers, last>>

\* while { connection.wait_for_event()?; true }: were the condition false the
\* loop would be left and main return Ok(()).
\* connection.wait_for_event()?: WaitForSingleObject on a handle that is not
\* open fails with ERROR_INVALID_HANDLE; on an open one it is signalled or fails
Connection_wait_for_event ==
    /\ pc = "wait"
    /\ \E errno \in (IF conn.event \in os.handles THEN WaitErrors \cup {0} ELSE {6}) :
          IF errno # 0
          THEN /\ os' = [os EXCEPT !.last_error = errno]
               /\ result' = Err(WaitFailed(errno))
               /\ pc' = "drop_conn"
          ELSE IF LoopCond
               THEN /\ pc' = "create"
                    /\ UNCHANGED <<os, result>>
               ELSE /\ result' = Ok("unit")
                    /\ pc' = "drop_conn"
                    /\ UNCHANGED os
    /\ UNCHANGED <<conn, view, ptr, mem, sdk_header, headers, last>>

\* View::create(&connection)? and Ptr::new(view.view): MapViewOfFile returns
\* the address of a view of what the producer published, or null
View_create ==
    /\ pc = "create"
    /\ \E a \in (ViewAddrs \ os.views) \cup {NULL} :
          IF a = NULL
          THEN /\ result' = Err(ViewCreationFailed)
               /\ pc' = "drop_conn"
               /\ UNCHANGED <<view, ptr, mem, os>>
          ELSE \E s \in MainSnapshots, ub \in BOOLEAN :
                  \* ub matters only where a flag byte is no valid bool
                  /\ ub \/ \E k \in 1..Len(s.vars) : s.vars[k].flag \notin {0, 1}
                  /\ os' = [os EXCEPT !.views = @ \cup {a}]
                  /\ view' = a
                  /\ mem' = MapView(a, s, ub)
                  /\ ptr' = Ptr_new(a)
                  /\ pc' = "header"
                  /\ UNCHANGED result
    /\ UNCHANGED <<conn, sdk_header, headers, last>>

\* let sdk_header = SdkHeader::from_ptr(&mut ptr)
DecodeSdkHeader ==
    /\ pc = "header"
    /\ \E r \in {SdkHeader_from_ptr(mem, ptr)} :
           /\ sdk_header' = r.val
           /\ ptr' = r.ptr
    /\ pc' = "set_table"
    /\ UNCHANGED <<conn, view, mem, headers, result, os, last>>

\* ptr.set(sdk_header.var_header_offset as usize); let mut headers = Vec::new()
SetTable ==
    /\ pc = "set_table"
    /\ ptr' = Ptr_set(ptr, AsUsize(sdk_header.var_header_offset))
    /\ headers' = <<>>
    /\ pc' = "table"
    /\ UNCHANGED <<conn, view, mem, sdk_header, result, os, last>>

\* a table loop that skips the record that fails to decode
ReadVarHeader_skip ==
    /\ pc = "table"
    /\ IF Len(headers) < sdk_header.num_vars
       THEN \E r \in {Ptr_try_read(mem, ptr, "VarHeader")} :
                IF r.res.ok
                THEN /\ ptr' = r.ptr
                     /\ headers' = Append(headers, r.res.val)
                     /\ UNCHANGED <<pc, result>>
                ELSE /\ ptr' = Ptr_advance(ptr, VarHeaderSize)
                     /\ headers' = Append(headers, NoValue)
                     /\ UNCHANGED <<pc, result>>
       ELSE /\ pc' = "resolve"
            /\ UNCHANGED <<ptr, headers, result>>
    /\ UNCHANGED <<conn, view, mem, sdk_header, os, last>>

\* a table loop whose failure leaves main with the view still mapped
ReadVarHeader_early ==
    /\ pc = "table"
    /\ IF Len(headers) < sdk_header.num_vars
       THEN \E r \in {Ptr_try_read(mem, ptr, "VarHeader")} :
                /\ ptr' = r.ptr
                /\ IF r.res.ok
                   THEN /\ headers' = Append(headers, r.res.val)
                        /\ UNCHANGED <<pc, result>>
                   ELSE /\ result' = Err(r.res.err)
                        /\ pc' = "drop_conn"
                        /\ UNCHANGED headers
       ELSE /\ pc' = "resolve"
            /\ UNCHANGED <<ptr, headers, result>>
    /\ UNCHANGED <<conn, view, mem, sdk_header, os, last>>

\* a table loop that takes a negative num_vars for its magnitude
ReadVarHeader_abs ==
    /\ pc = "table"
    /\ IF Len(headers) < sdk_header.num_vars \/ Len(headers) < -sdk_header.num_vars
       THEN \E r \in {Ptr_try_read(mem, ptr, "VarHeader")} :
                /\ ptr' = r.ptr
                /\ IF r.res.ok
                   THEN /\ headers' = Append(headers, r.res.val)
                        /\ UNCHANGED <<pc, result>>
                   ELSE /\ result' = Err(r.res.err)
                        /\ pc' = "drop_view"
                        /\ UNCHANGED headers
       ELSE /\ pc' = "resolve"
            /\ UNCHANGED <<ptr, headers, result>>
    /\ UNCHANGED <<conn, view, mem, sdk_header, os, last>>

\* one turn of  for _ in 0..num_vars { headers.push(ptr.try_read::<VarHeader>()?) }
\* and, past the last turn, the printing of the names
ReadVarHeader ==
    /\ pc = "table"
    /\ IF Len(headers) < sdk_header.num_vars
       THEN \E r \in {Ptr_try_read(mem, ptr, "VarHeader")} :
                /\ ptr' = r.ptr
                /\ IF r.res.ok
                   THEN /\ headers' = Append(headers, r.res.val)
                        /\ UNCHANGED <<pc, result>>
                   ELSE /\ result' = Err(r.res.err)
                        /\ pc' = "drop_view"
                        /\ UNCHANGED headers
       ELSE /\ pc' = "resolve"
            /\ UNCHANGED <<ptr, headers, result>>
    /\ UNCHANGED <<conn, view, mem, sdk_header, os, last>>

\* an iterator's maximum that keeps the first of equal keys
RECURSIVE max_by_key_first(_, _, _)
max_by_key_first(s, i, best) ==
    IF i > Len(s) THEN best
    ELSE max_by_key_first(s, i + 1, IF s[i].tick_count > s[best].tick_count THEN i ELSE best)

\* Iterator::max_by_key over s[i..]: the element kept is replaced by every
\* later element whose key is not smaller (the last maximum wins)
RECURSIVE max_by_key(_, _, _)
max_by_key(s, i, best) ==
    IF i > Len(s) THEN best
    ELSE max_by_key(s, i + 1, IF s[i].tick_count >= s[best].tick_count THEN i ELSE best)

\* a resolver that takes the first buffer whatever the tick counts
NewestBuf_first(var_bufs) == 1

\* the index in var_bufs of newest_buf
NewestBuf(var_bufs) == max_by_key(var_bufs, 2, 1)

\* let newest_buf = ...max_by_key(|v| v.tick_count).unwrap(); ptr.set(newest_buf.buf_offset as usize)
Resolve ==
    /\ pc = "resolve"
    /\ LET newest_buf == sdk_header.var_bufs[NewestBuf(sdk_header.var_bufs)]
       IN  ptr' = Ptr_set(ptr, AsUsize(newest_buf.buf_offset))
    /\ pc' = "end_iter"
    /\ UNCHANGED <<conn, view, mem, sdk_header, headers, result, os, last>>

\* a View whose Drop does not unmap
View_drop_leak ==
    /\ pc \in {"end_iter", "drop_view"}
    /\ view' = NULL
    /\ mem' = NoMem
    /\ ptr' = NoPtr
    /\ sdk_header' = NoHeader
    /\ headers' = <<>>
    /\ pc' = IF pc = "end_iter" THEN "wait" ELSE "drop_conn"
    /\ UNCHANGED <<conn, result, last, os>>

\* a loop whose next turn maps a view without waiting
View_drop_nowait ==
    /\ pc \in {"end_iter", "drop_view"}
    /\ os' = UnmapViewOfFile(os, view)
    /\ view' = NULL
    /\ mem' = NoMem
    /\ ptr' = NoPtr
    /\ sdk_header' = NoHeader
    /\ headers' = <<>>
    /\ pc' = IF pc = "end_iter" THEN "create" ELSE "drop_conn"
    /\ UNCHANGED <<conn, result, last>>

\* Drop for View, at the end of the loop body or when `?` leaves it
View_drop ==
    /\ pc \in {"end_iter", "drop_view"}
    /\ os' = UnmapViewOfFile(os, view)
    /\ view' = NULL
    /\ mem' = NoMem
    /\ ptr' = NoPtr
    /\ sdk_header' = NoHeader
    /\ headers' = <<>>
    /\ pc' = IF pc = "end_iter" THEN "wait" ELSE "drop_conn"
    /\ UNCHANGED <<conn, result, last>>

\* Drop for Connection, when main returns
Connection_drop ==
    /\ pc = "drop_conn"
    /\ os' = CloseHandle(CloseHandle(os, conn.event), conn.mapping)
    /\ pc' = "done"
    /\ UNCHANGED <<conn, view, ptr, mem, sdk_header, headers, result, last>>

Next ==
    \/ Connection_open
    \/ Connection_wait_for_event
    \/ View_create
    \/ DecodeSdkHeader
    \/ SetTable
    \/ ReadVarHeader
    \/ Resolve
    \/ View_drop
    \/ Connection_drop

Spec == Init /\ [][Next]_vars

\* the end of the loop body, once the table is decoded: neither step blocks,
\* so the one that is possible is eventually taken; the wait may block for ever
EndOfBody ==
    \/ Resolve
    \/ View_drop

SpecLive == Spec /\ WF_vars(EndOfBody)

(***************************************************************************)
(* The cursor alone.  A view of one snapshot is mapped and a cursor stands *)
(* at some offset of it; one operation of Ptr is applied, and `last` keeps *)
(* what was called (op, T), the cursor before, the cursor the closure of a *)
(* fallible operation left (clone), the Result and the value read.         *)
(***************************************************************************)
\* the longest sequence of operations a closure or a run performs
MaxScriptLen == 2

\* the records at the table of the snapshots read: [type code, flag byte,
\* what an invalid bool reads as]
PtrCodes == {-1, 0, 1, 2, 3, 4, 5, 6, 99, 999}
PtrRecords ==
    {<<c, 1, TRUE>> : c \in PtrCodes}
    \cup {<<4, 0, TRUE>>, <<4, 2, TRUE>>, <<4, 2, FALSE>>}
\* the count field of the table's record: negative, zero and positive
PtrCounts == {-1, 0, 1, 3}
PtrCountsOf(rec) == IF rec[1] \in 0..5 /\ rec[2] = 1 THEN PtrCounts ELSE {1}
WithCount(s, c) == [s EXCEPT !.vars[1].count = c]

\* where the cursor starts: the header, its var_bufs, the table, the flag
\* byte of the table's record
PtrStarts == {0, 48, 144, 156}

ReadTypes ==
    {U8, I32, Bool, VarBufT, ArrayT(U8, 3), ArrayT(U8, MAX_STRING),
     ArrayT(I32, 2), ArrayT(VarBufT, MAX_BUFS), ArrayT(ArrayT(U8, 2), 2)}

\* what a run of unconditional operations is made of
RunOps ==
    {[op |-> "advance", n |-> 3, T |-> U8], [op |-> "advance", n |-> 8, T |-> U8]}
    \cup {[op |-> "read", n |-> 0, T |-> T] :
            T \in {U8, I32, Bool, VarBufT, ArrayT(U8, 3)}}
\* a closure may also reposition the cursor it is given
ClosureOps == RunOps \cup {[op |-> "set", n |-> 0, T |-> U8]}

SeqsUpTo(S, n) == UNION {[1..k -> S] : k \in 0..n}

Closures ==
    {[kind |-> "script", ops |-> ops, ok |-> ok, err |-> ViewCreationFailed] :
        ops \in SeqsUpTo(ClosureOps, MaxScriptLen), ok \in BOOLEAN}

\* a read stays inside the view
InView(m, p) == p.offset <= Len(m.bytes)

InitPtr ==
    /\ pc = "ptr"
    /\ conn = NoConn
    /\ \E a \in ViewAddrs, rec \in PtrRecords, o \in PtrStarts :
          /\ view = a
          /\ \E c \in PtrCountsOf(rec) :
                mem = MapView(a, WithCount(Snapshot(1, 144, <<3, 7, 7, 2>>, <<rec[1]>>, rec[2]), c),
                              rec[3])
          /\ ptr = Ptr_set(Ptr_new(a), o)
          /\ os = [handles |-> {}, views |-> {a}, last_error |-> 0, misuse |-> {}, released |-> {},
                  event_open |-> "none"]
    /\ sdk_header = NoHeader
    /\ headers = <<>>
    /\ result = Pending
    /\ last = NoOp

PtrFrame == UNCHANGED <<pc, conn, view, mem, sdk_header, headers, result, os>>

\* ptr.set(n)
Op_set ==
    /\ pc = "ptr" /\ last.op = "none"
    /\ \E n \in PtrStarts :
          /\ ptr' = Ptr_set(ptr, n)
          /\ last' = [NoOp EXCEPT !.op = "set", !.before = ptr, !.val = n]
    /\ PtrFrame

\* ptr.read::<T>()
Op_read ==
    /\ pc = "ptr" /\ last.op = "none"
    /\ \E T \in ReadTypes : \E r \in {Ptr_read(mem, ptr, T)} :
          /\ InView(mem, r.ptr)
          /\ ptr' = r.ptr
          /\ last' = [NoOp EXCEPT !.op = "read", !.T = T, !.before = ptr, !.val = r.val]
    /\ PtrFrame

\* SdkHeader::from_ptr(&mut ptr)
Op_read_SdkHeader ==
    /\ pc = "ptr" /\ last.op = "none"
    /\ \E r \in {SdkHeader_from_ptr(mem, ptr)} :
          /\ InView(mem, r.ptr)
          /\ ptr' = r.ptr
          /\ last' = [NoOp EXCEPT !.op = "read_SdkHeader", !.T = "SdkHeader", !.before = ptr,
                                  !.val = r.val]
    /\ PtrFrame

\* a sequence of unconditional reads and advances on ptr
Op_run ==
    /\ pc = "ptr" /\ last.op = "none"
    /\ \E ops \in SeqsUpTo(RunOps, MaxScriptLen) : \E p \in {RunScript(mem, ptr, ops)} :
          /\ InView(mem, p)
          /\ ptr' = p
          /\ last' = [NoOp EXCEPT !.op = "run", !.T = ops, !.before = ptr]
    /\ PtrFrame

\* T::try_from_ptr(&mut ptr), not scoped
Op_try_from_ptr ==
    /\ pc = "ptr" /\ last.op = "none"
    /\ \E T \in {"VarType", "VarHeader"} : \E r \in {Call(mem, ptr, [kind |-> T])} :
          /\ InView(mem, r.ptr)
          /\ ptr' = r.ptr
          /\ last' = [NoOp EXCEPT !.op = "try_from_ptr", !.T = T, !.before = ptr,
                                  !.res = r.res]
    /\ PtrFrame

\* ptr.try_read::<T>()
Op_try_read ==
    /\ pc = "ptr" /\ last.op = "none"
    /\ \E T \in {"VarType", "VarHeader"} : \E r \in {Ptr_try_read(mem, ptr, T)} :
          /\ InView(mem, Call(mem, ptr, [kind |-> T]).ptr)
          /\ ptr' = r.ptr
          /\ last' = [NoOp EXCEPT !.op = "try_read", !.T = T, !.before = ptr,
                                  !.clone = Call(mem, ptr, [kind |-> T]).ptr,
                                  !.res = r.res]
    /\ PtrFrame

\* ptr.scoped(f)
Op_scoped ==
    /\ pc = "ptr" /\ last.op = "none"
    /\ \E f \in Closures : \E r \in {Ptr_scoped(mem, ptr, f)} :
          /\ InView(mem, Call(mem, ptr, f).ptr)
          /\ ptr' = r.ptr
          /\ last' = [NoOp EXCEPT !.op = "scoped", !.T = f.ops, !.before = ptr,
                                  !.clone = Call(mem, ptr, f).ptr, !.res = r.res]
    /\ PtrFrame

\* VarType::byte_len
VarType_byte_len(self) ==
    CASE self \in {"Char", "Bool"} -> 1
      [] self \in {"Int", "BitField", "Float"} -> 4
      [] self = "Double" -> 8

\* a * b on usize, the product reduced modulo the width by repeated addition
RECURSIVE UsizeWrappingMul(_, _)
UsizeWrappingMul(a, b) ==
    IF a = 0 THEN 0 ELSE (b + UsizeWrappingMul(a - 1, b)) % USIZE_TOP

\* `a * b` on usize: when the product does not fit, a build with overflow
\* checks panics and one without them wraps
UsizeMul(a, b, overflow_checks) ==
    LET overflow == a # 0 /\ b > (USIZE_TOP - 1) \div a
    IN  [overflow |-> overflow,
         panic |-> overflow /\ overflow_checks,
         val |-> IF overflow /\ overflow_checks THEN 0 ELSE UsizeWrappingMul(a, b)]

\* VarHeader::byte_len
VarHeader_byte_len(self, overflow_checks) ==
    UsizeMul(VarType_byte_len(self.type), AsUsize(self.count), overflow_checks)

\* header.byte_len() on the VarHeader a try_read has returned
Op_byte_len ==
    /\ pc = "ptr"
    /\ last.op = "try_read" /\ last.T = "VarHeader" /\ last.res.ok
    /\ \E overflow_checks \in BOOLEAN :
          last' = [last EXCEPT !.op = "byte_len",
                               !.val = VarHeader_byte_len(last.res.val, overflow_checks)]
    /\ UNCHANGED ptr
    /\ PtrFrame

NextPtr ==
    \/ Op_set
    \/ Op_read
    \/ Op_read_SdkHeader
    \/ Op_run
    \/ Op_try_from_ptr
    \/ Op_try_read
    \/ Op_scoped
    \/ Op_byte_len

SpecPtr == InitPtr /\ [][NextPtr]_vars

(***************************************************************************)
(* Properties of the cursor, checked under SpecPtr.                        *)
(***************************************************************************)
\* the width in bytes the layout gives a read of T
RECURSIVE Width(_)
Width(T) ==
    CASE T.ty = "u8" -> 1
      [] T.ty = "i32" -> 4
      [] T.ty = "bool" -> 1
      [] T.ty = "VarBuf" -> 16
      [] T.ty = "array" -> T.n * Width(T.elem)

OpWidth(o) == IF o.op = "advance" THEN o.n ELSE Width(o.T)

RECURSIVE SumWidths(_)
SumWidths(ops) == IF ops = <<>> THEN 0 ELSE OpWidth(Head(ops)) + SumWidths(Tail(ops))

\* C1 (rollback): when try_read or scoped returns Err, the cursor is what it
\* was before the call, whatever the failed closure consumed.
C1_Rollback ==
    (last.op \in {"try_read", "scoped"} /\ ~last.res.ok) => ptr = last.before

\* a try_read of a VarType failed after its closure had consumed four bytes
C1_Witness ==
    /\ last.op = "try_read" /\ last.T = "VarType"
    /\ ~last.res.ok
    /\ last.clone.offset = last.before.offset + 4
    /\ ptr.offset = last.before.offset

\* the reads VarHeader::try_from_ptr makes, as unconditional operations
VarHeaderReads ==
    << [op |-> "read", n |-> 0, T |-> I32], [op |-> "read", n |-> 0, T |-> I32],
       [op |-> "read", n |-> 0, T |-> I32], [op |-> "read", n |-> 0, T |-> Bool],
       [op |-> "advance", n |-> 3, T |-> U8],
       [op |-> "read", n |-> 0, T |-> ArrayT(U8, 32)],
       [op |-> "read", n |-> 0, T |-> ArrayT(U8, 64)],
       [op |-> "read", n |-> 0, T |-> ArrayT(U8, 32)] >>

\* C2 (commit): when try_read returns Ok the cursor stands where the same
\* reads made unconditionally leave it; for a VarHeader that is 144 bytes on
\* (4 + 4 + 4 + 1 + 3 + 32 + 64 + 32).  scoped returning Ok keeps what its
\* closure left.
C2_Commit ==
    /\ (last.op = "try_read" /\ last.T = "VarHeader" /\ last.res.ok) =>
          /\ ptr.ptr = last.before.ptr
          /\ ptr.offset = last.before.offset + 144
          /\ ptr = RunScript(mem, last.before, VarHeaderReads)
    /\ (last.op = "try_read" /\ last.T = "VarType" /\ last.res.ok) =>
          /\ ptr.ptr = last.before.ptr
          /\ ptr.offset = last.before.offset + 4
    /\ (last.op = "scoped" /\ last.res.ok) =>
          ptr = RunScript(mem, last.before, last.T)

\* a VarHeader was decoded from the table by try_read
C2_Witness ==
    /\ last.op = "try_read" /\ last.T = "VarHeader"
    /\ last.res.ok
    /\ last.before.offset = 144
    /\ ptr.offset = 288

\* the integer stored where the cursor of the last operation stood
CodeAt(m, o) ==
    CASE o = 0 -> m.snap.ints[1]
      [] o = 48 -> m.snap.bufs[1].tick_count
      [] o = 144 -> m.snap.vars[1].type
      [] o = 156 -> m.snap.vars[1].flag

\* the variant the format gives each discriminant
VariantOf(c) ==
    CASE c = 0 -> "Char" [] c = 1 -> "Bool" [] c = 2 -> "Int"
      [] c = 3 -> "BitField" [] c = 4 -> "Float" [] c = 5 -> "Double"

\* C4 (discriminant validation): VarType::try_from_ptr reads one 4-byte
\* integer c; 0..5 give Char, Bool, Int, BitField, Float, Double and any other
\* c, negative ones included, gives Err(UnknownVarType(c)).
C4_Discriminant ==
    (last.op = "try_from_ptr" /\ last.T = "VarType") =>
        LET c == CodeAt(mem, last.before.offset)
        IN /\ ptr = Ptr_advance(last.before, 4)
           /\ last.res = IF c \in 0..5 THEN Ok(VariantOf(c)) ELSE Err(UnknownVarType(c))

\* a negative discriminant was read and refused
C4_Witness ==
    /\ last.op = "try_from_ptr" /\ last.T = "VarType"
    /\ last.before.offset = 144
    /\ mem.snap.vars[1].type = -1
    /\ last.res = Err(UnknownVarType(-1))

\* C10 (cursor advance law): after a sequence of unconditional reads and
\* advances the offset is the starting offset plus the sum of the widths; an
\* array of N elements moves the cursor N element widths and holds the
\* elements in index order.
C10_AdvanceLaw ==
    /\ last.op = "run" =>
          /\ ptr.ptr = last.before.ptr
          /\ ptr.offset = last.before.offset + SumWidths(last.T)
    /\ last.op = "read" =>
          /\ ptr.ptr = last.before.ptr
          /\ ptr.offset = last.before.offset + Width(last.T)
          /\ last.T.ty = "array" =>
                /\ Len(last.val) = last.T.n
                /\ \A k \in 1..last.T.n :
                      last.val[k] =
                          Ptr_read(mem,
                                   Ptr_advance(last.before, (k - 1) * Width(last.T.elem)),
                                   last.T.elem).val
          /\ (last.T = ArrayT(VarBufT, MAX_BUFS) /\ last.before.offset = 48) =>
                \A k \in 1..MAX_BUFS :
                    /\ last.val[k].tick_count = mem.snap.bufs[k].tick_count
                    /\ last.val[k].buf_offset = mem.snap.bufs[k].buf_offset

\* the four VarBufs of the header were read as one array
C10_Witness ==
    /\ last.op = "read"
    /\ last.T = ArrayT(VarBufT, MAX_BUFS)
    /\ last.before.offset = 48
    /\ ptr.offset = 112
    /\ [k \in 1..MAX_BUFS |-> last.val[k].tick_count] = <<3, 7, 7, 2>>

(***************************************************************************)
(* Properties of main, checked under Spec.  Indices of the model count from *)
(* 1: var_bufs[k] here is var_bufs[k - 1] of the code.                     *)
(***************************************************************************)
\* the positions of the greatest tick_count
Newest(bufs) ==
    {i \in 1..Len(bufs) : \A j \in 1..Len(bufs) : bufs[j].tick_count <= bufs[i].tick_count}
FirstNewest(bufs) == CHOOSE i \in Newest(bufs) : \A j \in Newest(bufs) : i <= j
LastNewest(bufs) == CHOOSE i \in Newest(bufs) : \A j \in Newest(bufs) : j <= i

\* C3 as stated (freshness tie-break): the resolve step selects a buffer of
\* greatest tick_count and, when several share it, the one of lowest index;
\* the cursor ends the iteration at that buffer's buf_offset.
C3_FirstNewest ==
    pc = "end_iter" =>
        ptr = [ptr |-> view, offset |-> mem.snap.bufs[FirstNewest(mem.snap.bufs)].buf_offset]

\* C3 amended: the resolve step selects a buffer of greatest tick_count and,
\* when several share it, the one of highest index; the cursor ends the
\* iteration at that buffer's buf_offset.
C3_LastNewest ==
    pc = "end_iter" =>
        ptr = [ptr |-> view, offset |-> mem.snap.bufs[LastNewest(mem.snap.bufs)].buf_offset]

\* tick counts 3, 7, 7, 2: the cursor is resolved to the third buffer
C3_Witness ==
    /\ pc = "end_iter"
    /\ [k \in 1..MAX_BUFS |-> mem.snap.bufs[k].tick_count] = <<3, 7, 7, 2>>
    /\ ptr.offset = mem.snap.bufs[3].buf_offset
    /\ ptr.offset # mem.snap.bufs[2].buf_offset

\* C5 as stated (resource disposal): whatever path ends a run, what was
\* acquired is released exactly once, nothing is released twice or leaked, and
\* no release is issued for a handle whose acquisition failed.
C5_Disposal ==
    /\ os.misuse = {}
    /\ pc = "done" => (os.handles = {} /\ os.views = {})

\* C6 as stated (event open failure): when the mapping opens and the event
\* does not, the run ends with Err(EventNotPresent) and never reaches the wait.
C6_EventNotPresent ==
    os.event_open = "failed" => (pc = "done" /\ result = Err(EventNotPresent))

\* C7 (wait failure is fatal): once the wait has failed with the system's
\* error code, the run ends with WaitFailed(code): it does not wait again,
\* holds no view and has decoded nothing in that iteration.
C7_WaitFailureFatal ==
    os.last_error # 0 =>
        /\ result = Err(WaitFailed(os.last_error))
        /\ pc \in {"drop_conn", "done"}
        /\ view = NULL /\ os.views = {} /\ mem = NoMem
        /\ ptr = NoPtr /\ sdk_header = NoHeader /\ headers = <<>>

\* the wait failed in an iteration after one that had mapped and released a view
C7_Witness ==
    /\ pc = "done"
    /\ os.last_error = 5
    /\ result = Err(WaitFailed(5))
    /\ os.released \cap ViewAddrs # {}

\* C8 (view lifecycle): an iteration that passes the wait holds exactly one
\* view, the one its cursor reads; no view is held while waiting or after the
\* iteration, and views are released only while mapped.
C8_ViewLifecycle ==
    /\ Cardinality(os.views) <= 1
    /\ pc \in {"open", "wait", "create", "drop_conn", "done"} =>
          (os.views = {} /\ view = NULL /\ ptr = NoPtr /\ mem = NoMem)
    /\ pc \in {"header", "set_table", "table", "resolve", "end_iter", "drop_view"} =>
          (view # NULL /\ os.views = {view} /\ ptr.ptr = view /\ mem.base = view)
    /\ \A m \in os.misuse : m[1] # "UnmapViewOfFile"

\* an iteration waits after the view of an earlier one was released
C8_Witness ==
    /\ pc = "wait"
    /\ os.released \cap ViewAddrs # {}
    /\ os.views = {}

\* the first record of the table whose type code is no discriminant, or 0
FirstBad(table) ==
    IF \A k \in 1..Len(table) : table[k].type \in 0..5 THEN 0
    ELSE CHOOSE k \in 1..Len(table) :
            /\ table[k].type \notin 0..5
            /\ \A j \in 1..(k - 1) : table[j].type \in 0..5

\* C9 (table decode stops at first failure): when record i (from 0) is the
\* first that fails to decode, exactly the i records before it were decoded,
\* none after it is read, the iteration ends with that record's error and the
\* cursor stands at var_header_offset + 144 * i.
C9_TableStops ==
    LET records == mem.snap.vars
        table == mem.snap.ints[8]
    IN /\ pc = "table" =>
            /\ FirstBad(records) = 0 \/ Len(headers) < FirstBad(records)
            /\ ptr.offset = table + 144 * Len(headers)
       /\ pc = "drop_view" =>
            /\ FirstBad(records) # 0
            /\ Len(headers) = FirstBad(records) - 1
            /\ \A k \in 1..Len(headers) : headers[k].name[1] = records[k].tag
            /\ result = Err(UnknownVarType(records[FirstBad(records)].type))
            /\ ptr.offset = table + 144 * (FirstBad(records) - 1)
       /\ pc \in {"resolve", "end_iter"} => (FirstBad(records) = 0 /\ Len(headers) = Len(records))
       /\ result.err.tag = "UnknownVarType" => pc \in {"drop_view", "drop_conn", "done"}

\* the second record of a table failed after the first was decoded
C9_Witness ==
    /\ pc = "drop_view"
    /\ Len(headers) = 1
    /\ mem.snap.vars[2].type = 99
    /\ result = Err(UnknownVarType(99))
    /\ ptr.offset = mem.snap.ints[8] + 144

\* C11 (end-to-end iteration result): in every iteration where the header
\* and all the records decode, the records collected are the num_vars records
\* of the table in table order (none when num_vars is not positive), and the
\* cursor ends at the buf_offset of a buffer whose tick_count is not smaller
\* than any of the four; for tick counts 1, 5, 3, 0 that is the second buffer.
C11_EndToEnd ==
    pc = "end_iter" =>
        LET s == mem.snap
            n == IF s.ints[7] > 0 THEN s.ints[7] ELSE 0
        IN /\ Len(headers) = n
           /\ \A k \in 1..n :
                 /\ headers[k].type = VariantOf(s.vars[k].type)
                 /\ headers[k].offset = s.vars[k].offset
                 /\ headers[k].count = s.vars[k].count
                 /\ headers[k].name[1] = s.vars[k].tag
           /\ ptr.ptr = view
           /\ \E i \in 1..MAX_BUFS :
                 /\ ptr.offset = s.bufs[i].buf_offset
                 /\ \A j \in 1..MAX_BUFS : s.bufs[j].tick_count <= s.bufs[i].tick_count
           /\ [k \in 1..MAX_BUFS |-> s.bufs[k].tick_count] = <<1, 5, 3, 0>> =>
                 ptr.offset = s.bufs[2].buf_offset

\* two records were collected and the cursor resolved for tick counts 1, 5, 3, 0
C11_Witness ==
    /\ pc = "end_iter"
    /\ Len(headers) = 2
    /\ [k \in 1..MAX_BUFS |-> mem.snap.bufs[k].tick_count] = <<1, 5, 3, 0>>
    /\ ptr.offset = mem.snap.bufs[2].buf_offset

\* C12 (VarHeader fails only through its VarType): VarHeader::try_from_ptr
\* from offset o returns Err exactly when the type code at o is outside 0..5;
\* the error is then UnknownVarType of that code and the cursor is still at o;
\* the flag byte, the count and the other fields never make it fail.
C12_OnlyVarType ==
    (last.op = "try_from_ptr" /\ last.T = "VarHeader") =>
        LET c == CodeAt(mem, last.before.offset)
        IN /\ last.res.ok <=> c \in 0..5
           /\ last.res.ok =>
                 /\ last.res.val.type = VariantOf(c)
                 /\ ptr = Ptr_advance(last.before, 144)
           /\ ~last.res.ok =>
                 /\ last.res = Err(UnknownVarType(c))
                 /\ ptr = last.before

\* the record at the table has type code 99: the decode fails, the cursor at 144
C12_Witness ==
    /\ last.op = "try_from_ptr" /\ last.T = "VarHeader"
    /\ last.before.offset = 144
    /\ mem.snap.vars[1].type = 99
    /\ last.res = Err(UnknownVarType(99))
    /\ ptr.offset = 144

\* the 4-byte integer stored at an address of the view
I32At(m, addr) ==
    I32FromBytes(<<Load(m, addr), Load(m, addr + 1), Load(m, addr + 2), Load(m, addr + 3)>>)

\* C13 (SdkHeader layout): SdkHeader::from_ptr from offset o reads the ten
\* integers in declared order from o..o+40, skips 8 bytes, reads VarBuf i
\* (i from 0 to 3) with tick_count at o+48+16*i and buf_offset at o+52+16*i,
\* and leaves the cursor at o+112.
C13_SdkHeaderLayout ==
    last.op = "read_SdkHeader" =>
        LET a == last.before.ptr + last.before.offset
            h == last.val
        IN /\ h.version = I32At(mem, a)
           /\ h.status = I32At(mem, a + 4)
           /\ h.tick_rate = I32At(mem, a + 8)
           /\ h.session_info_update = I32At(mem, a + 12)
           /\ h.session_info_len = I32At(mem, a + 16)
           /\ h.session_info_offset = I32At(mem, a + 20)
           /\ h.num_vars = I32At(mem, a + 24)
           /\ h.var_header_offset = I32At(mem, a + 28)
           /\ h.num_buf = I32At(mem, a + 32)
           /\ h.buf_len = I32At(mem, a + 36)
           /\ Len(h.var_bufs) = 4
           /\ \A i \in 0..3 :
                 /\ h.var_bufs[i + 1].tick_count = I32At(mem, a + 48 + 16 * i)
                 /\ h.var_bufs[i + 1].buf_offset = I32At(mem, a + 52 + 16 * i)
           /\ ptr = Ptr_advance(last.before, 112)
           /\ last.before.offset = 0 =>
                 /\ <<h.version, h.status, h.tick_rate, h.session_info_update,
                      h.session_info_len, h.session_info_offset, h.num_vars,
                      h.var_header_offset, h.num_buf, h.buf_len>> = mem.snap.ints
                 /\ h.var_bufs = mem.snap.bufs

\* the header of a snapshot was read from offset 0
C13_Witness ==
    /\ last.op = "read_SdkHeader"
    /\ last.before.offset = 0
    /\ ptr.offset = 112
    /\ last.val.var_header_offset = 144
    /\ last.val.var_bufs[2] = [tick_count |-> 7, buf_offset |-> mem.snap.bufs[2].buf_offset]

\* C14 (wait before decode): a view is acquired only by the step that follows
\* a successful wait, a header is decoded only from the view just acquired,
\* and after a decode failure or a completed iteration the view is released
\* and control returns to the wait or leaves main: no view is decoded twice.
C14_WaitBeforeDecode ==
    [][ /\ pc' = "create" => (pc = "wait" /\ os' = os /\ conn.event \in os.handles)
        /\ (view' # view /\ view' # NULL) => (pc = "create" /\ view = NULL)
        /\ pc' = "header" => (pc = "create" /\ view' \notin os.views)
        /\ (sdk_header' # sdk_header /\ sdk_header' # NoHeader) =>
              (pc = "header" /\ sdk_header = NoHeader)
        /\ pc \in {"end_iter", "drop_view"} =>
              (view' = NULL /\ view \notin os'.views /\ pc' \in {"wait", "drop_conn"})
      ]_vars

\* a second iteration decodes a new view after the first one's was released
C14_Witness ==
    /\ pc = "header"
    /\ view = 8192
    /\ os.released = {4096}
    /\ os.views = {8192}

\* C15 (the loop runs indefinitely): main ends only by returning one of the
\* typed errors, never Ok(()); and every Decoding phase whose header and
\* records have decoded is followed by a return to Waiting.
C15_RunsForever ==
    /\ [](pc = "done" =>
            /\ ~result.ok
            /\ result.err.tag \in {"TelemetryNotPresent", "EventNotPresent",
                                   "ViewCreationFailed", "UnknownVarType", "WaitFailed"})
    /\ [](result = Pending \/ ~result.ok)
    /\ (pc = "resolve") ~> (pc = "wait")

\* two iterations have completed and main is waiting again
C15_Witness ==
    /\ pc = "wait"
    /\ os.released = ViewAddrs
    /\ result = Pending

\* C16 as stated (validity of unconditional reads): no field of a record is
\* read through Ptr::read as a type with invalid bit patterns; whenever a
\* VarHeader has been decoded, the byte read as its bool count_as_time (12
\* bytes into the record) was 0 or 1.
C16_ValidReads ==
    (last.op \in {"try_read", "try_from_ptr"} /\ last.T = "VarHeader" /\ last.res.ok) =>
        Load(mem, last.before.ptr + last.before.offset + 12) \in {0, 1}

\* the width in bytes the format gives each variant
TypeWidth(t) ==
    CASE t = "Char" -> 1 [] t = "Bool" -> 1 [] t = "Int" -> 4
      [] t = "BitField" -> 4 [] t = "Float" -> 4 [] t = "Double" -> 8

\* C17 as stated (byte_len): VarHeader::byte_len returns the type's width
\* (1, 1, 4, 4, 4, 8) times count for every decoded count, zero and negative
\* ones included, without overflow or panic.
C17_ByteLen ==
    last.op = "byte_len" =>
        /\ ~last.val.overflow
        /\ ~last.val.panic
        /\ last.val.val = TypeWidth(last.res.val.type) * last.res.val.count

\* C18 (release ordering on exit): while a view is mapped or a cursor exists
\* the mapping handle is open; the handles are closed only after the view of
\* the iteration has been unmapped.
C18_ReleaseOrder ==
    /\ (view # NULL \/ os.views # {} \/ ptr # NoPtr) =>
          /\ conn.mapping # NULL
          /\ conn.mapping \in os.handles
          /\ conn.mapping \notin os.released
    /\ pc \in {"drop_conn", "done"} => (view = NULL /\ os.views = {} /\ ptr = NoPtr)
    /\ os.released \cap MappingHandles # {} => pc = "done"

\* main has returned a decode error: the view was unmapped, then the handles closed
C18_Witness ==
    /\ pc = "done"
    /\ result.err.tag = "UnknownVarType"
    /\ MappingHandles \subseteq os.released
    /\ os.released \cap ViewAddrs # {}
    /\ os.views = {}

\* C19 (num_vars zero or negative): when the num_vars of the snapshot is not
\* positive the table loop decodes nothing and does not fail: no record is
\* collected, the cursor stays at var_header_offset until the resolver moves
\* it, and the iteration runs to its end.
C19_EmptyTable ==
    (pc \in {"table", "resolve", "end_iter", "drop_view"} /\ mem.snap.ints[7] <= 0) =>
        /\ sdk_header.num_vars = mem.snap.ints[7]
        /\ headers = <<>>
        /\ pc # "drop_view"
        /\ result = Pending
        /\ pc \in {"table", "resolve"} => ptr = [ptr |-> view, offset |-> mem.snap.ints[8]]

\* an iteration over a snapshot with num_vars = -1 has reached its end
C19_Witness ==
    /\ pc = "end_iter"
    /\ sdk_header.num_vars = -1
    /\ headers = <<>>
    /\ result = Pending
    /\ ptr.offset = mem.snap.bufs[NewestBuf(mem.snap.bufs)].buf_offset

\* C20 (the base address is fixed): after set, advance, read and a successful
\* or failed try_read or scoped, the cursor's base address is the one given
\* to Ptr::new; only the offset may differ.
C20_BaseUnchanged ==
    /\ ptr.ptr = view
    /\ DOMAIN ptr = {"ptr", "offset"}
    /\ last.op # "none" => ptr.ptr = last.before.ptr
    /\ last.op \in {"try_read", "scoped"} => last.clone.ptr = last.before.ptr

\* a scoped closure succeeded and moved the offset of a cursor based at 8192
C20_Witness ==
    /\ last.op = "scoped"
    /\ last.res.ok
    /\ ptr.offset # last.before.offset
    /\ last.before.ptr = 8192
    /\ ptr.ptr = 8192

==========================================================================
